---- MODULE Spec2Model ----
(***************************************************************************)
(* Model of packages/umi-build-dev/src/plugins/commands/block/util.js:     *)
(* the block-list helpers (genBlockName, printBlocks, getBlockListFromGit),*)
(* the git cache operations (gitUpdate, gitClone) and the route helpers    *)
(* (genRouterToTreeData, reduceData, depthRouterConfig, routeExists).      *)
(*                                                                         *)
(* JavaScript strings are modelled as sequences of one-character strings,  *)
(* so that matching, splitting and joining are computed, not assumed.      *)
(* A JavaScript object is modelled as the sequence of its own (key, value) *)
(* entries in insertion order; properties inherited from Object.prototype  *)
(* are modelled by InheritedNames.                                         *)
(***************************************************************************)
EXTENDS Naturals, Sequences, FiniteSets

VARIABLES
  \* ---- the asynchronous operations (gitUpdate, gitClone, getBlockListFromGit)
  op,          \* the operation being run by the caller
  pc,          \* its position: "idle", the await it is suspended at, or "done"
  ctx,         \* the CloneContext (or the parsed git url) of the call
  gitLog,      \* the git processes spawned by the call, in order, with their exit
  spinLog,     \* the calls made on the progress indicator during the call
  http,        \* the HTTP GETs issued by the call, in order
  gitUrl,      \* GitUrlParse(gitUrl) of a getBlockListFromGit call: [owner, name]
  marker,      \* what isSubmodule() answered: "unchecked", "present", "absent"
  outcome,     \* "pending", "returned" or "thrown"
  err,         \* the kind of the error thrown, "none" otherwise
  ret,         \* [set, value]: the value returned by getBlockListFromGit
  calls,       \* number of calls started so far
  \* ---- genBlockName
  name,        \* the argument
  nameRes,     \* [done, threw, value]
  \* ---- printBlocks
  blocks,      \* the argument tree
  hasLink,     \* the argument flag
  blockArray,  \* [done, value]: the returned array
  \* ---- routes
  routes,      \* the route list
  rpc,         \* "idle", "map", "done" : position inside depthRouterConfig
  routerConfig,\* the object built by reduceData and mutated by the back-fill
  keys,        \* Object.keys(routerConfig) taken before the map
  ki,          \* index (1-based) of the key the map callback is at
  si,          \* index (0-based) the forEach callback is at
  mapped,      \* values returned so far by the map callback
  depthRes,    \* [done, value]: the array returned by depthRouterConfig
  existsRes    \* [done, path, result] of the last routeExists call

gitVars   == <<op, pc, ctx, gitLog, spinLog, http, gitUrl, marker, outcome, err, ret, calls>>
nameVars  == <<name, nameRes>>
blockVars == <<blocks, hasLink, blockArray>>
routeVars == <<routes, rpc, routerConfig, keys, ki, si, mapped, depthRes, existsRes>>
vars      == <<gitVars, nameVars, blockVars, routeVars>>

----------------------------------------------------------------------------
(* Bounds of the model *)
MaxCalls   == 2   \* calls of the asynchronous operations in one run
MaxTree    == 2   \* entries of the tree returned by the git-hosting API
MaxNameLen == 3   \* characters of an identifier given to genBlockName
MaxWidth   == 2   \* entries of one list of blocks / routes
MaxDepth   == 2   \* nesting depth of dir blocks

----------------------------------------------------------------------------
(* Strings *)
Upper  == {"A", "B"}
Lower  == {"a", "b", "c", "e", "i", "p", "r", "s", "t"}
Digit  == {"1", "2"}

RECURSIVE JoinWith(_, _)
\* Array.prototype.join(sep)
JoinWith(ss, sep) ==
  IF ss = <<>> THEN <<>>
  ELSE IF Len(ss) = 1 THEN ss[1]
  ELSE ss[1] \o sep \o JoinWith(Tail(ss), sep)

RECURSIVE SplitFrom(_, _, _)
\* String.prototype.split(sep) for a one-character separator; cur is the piece
\* being read
SplitFrom(s, sep, cur) ==
  IF s = <<>> THEN <<cur>>
  ELSE IF Head(s) = sep THEN <<cur>> \o SplitFrom(Tail(s), sep, <<>>)
  ELSE SplitFrom(Tail(s), sep, Append(cur, Head(s)))

Split(s, sep) == SplitFrom(s, sep, <<>>)

\* String.prototype.toLowerCase on one character
ToLowerChar(c) ==
  CASE c = "A" -> "a"
    [] c = "B" -> "b"
    [] OTHER   -> c

ToLowerCase(s) == [i \in 1..Len(s) |-> ToLowerChar(s[i])]

SeqsUpTo(S, n) == UNION {[1..k -> S] : k \in 0..n}

----------------------------------------------------------------------------
(* genBlockName, util.js 24-28 *)

RECURSIVE RunEnd(_, _, _)
\* last index of the maximal run of characters of class C starting at i
\* (i - 1 when s[i] is not in C): the greedy quantifier +
RunEnd(s, i, C) ==
  IF i <= Len(s) /\ s[i] \in C THEN RunEnd(s, i + 1, C) ELSE i - 1

SubStr(s, i, j) == [k \in 1..(j - i + 1) |-> s[i + k - 1]]

\* end of the match of /[A-Z]?[a-z]+|[0-9]+/ anchored at i, 0 when there is none
MatchAt(s, i) ==
  LET afterCap == RunEnd(s, i + 1, Lower)
      lowRun   == RunEnd(s, i, Lower)
      digRun   == RunEnd(s, i, Digit)
  IN  IF s[i] \in Upper /\ afterCap >= i + 1 THEN afterCap
      ELSE IF lowRun >= i THEN lowRun
      ELSE IF digRun >= i THEN digRun
      ELSE 0

RECURSIVE MatchAll(_, _)
\* the matches found by the global regex scanning from index i
MatchAll(s, i) ==
  IF i > Len(s) THEN <<>>
  ELSE LET e == MatchAt(s, i)
       IN  IF e = 0 THEN MatchAll(s, i + 1)
           ELSE <<SubStr(s, i, e)>> \o MatchAll(s, e + 1)

\* String.prototype.match with a /g regex: null when nothing matches
match(s) ==
  LET m == MatchAll(s, 1)
  IN  IF m = <<>> THEN [null |-> TRUE, arr |-> <<>>] ELSE [null |-> FALSE, arr |-> m]

\* genBlockName: .map on null throws a TypeError
genBlockName(n) ==
  LET m == match(n)
  IN  IF m.null THEN [threw |-> TRUE, value |-> <<>>]
      ELSE [threw |-> FALSE,
            value |-> JoinWith([i \in 1..Len(m.arr) |-> ToLowerCase(m.arr[i])], <<"/">>)]

----------------------------------------------------------------------------
(* The collaborators of the asynchronous operations *)

\* execa(`git`, args, {cwd}): the process is spawned and the caller awaits it
execa(log, args, cwd) == Append(log, [args |-> args, cwd |-> cwd, exit |-> "running"])

\* the awaited process exits: code 0 resolves the promise, any other rejects it
exited(log, code) == [log EXCEPT ![Len(log)].exit = code]

ExitCodes == {"ok", "failed"}

\* the progress indicator (ora): start(text), succeed(), fail()
start(log, text) == Append(log, [call |-> "start", text |-> text])
succeed(log)     == Append(log, [call |-> "succeed", text |-> ""])
fail(log)        == Append(log, [call |-> "fail", text |-> ""])

\* got(url): the request is issued and the caller awaits the response
got(log, url) == Append(log, url)

Branches == {"master", "dev"}

\* the CloneContext values the caller passes
Contexts ==
  {[repo |-> "repo.git", id |-> "id", branch |-> b,
    blocksTempPath |-> "blocksTmp", templateTmpDirPath |-> "blocksTmp/id"] : b \in Branches}

NoCtx == [repo |-> "", id |-> "", branch |-> "", blocksTempPath |-> "",
          templateTmpDirPath |-> ""]

\* GitUrlParse(gitUrl): the {owner, name} of the url
GitUrls == {[owner |-> "ant-design", name |-> "pro-blocks"],
            [owner |-> "ant-design", name |-> "other"],
            [owner |-> "umijs", name |-> "pro-blocks"]}

NoUrl == [owner |-> "", name |-> ""]

\* a call may start when no call is running
CanCall == pc \in {"idle", "done"} /\ calls < MaxCalls

\* what every call resets
Enter(o) ==
  /\ op' = o
  /\ calls' = calls + 1
  /\ outcome' = "pending"
  /\ err' = "none"
  /\ marker' = "unchecked"
  /\ ret' = [set |-> FALSE, value |-> <<>>]

\* throw e: the call ends and the error reaches the caller
Throw(kind) == pc' = "done" /\ outcome' = "thrown" /\ err' = kind

\* the async function returns: its promise resolves
Return == pc' = "done" /\ outcome' = "returned" /\ err' = "none"

----------------------------------------------------------------------------
(* gitUpdate(ctx, spinner), util.js 112-163 *)

\* lines 113-117: start the indicator and spawn git fetch
gitUpdateCall ==
  /\ CanCall
  /\ \E c \in Contexts :
       /\ Enter("gitUpdate")
       /\ ctx' = c
       /\ gitUrl' = NoUrl
       /\ spinLog' = start(<<>>, "Git fetch")
       /\ gitLog' = execa(<<>>, <<"fetch">>, c.templateTmpDirPath)
       /\ http' = <<>>
       /\ pc' = "await fetch"

\* lines 118-129: fetch exits; on failure fail() and rethrow, else checkout
gitUpdateFetchExit ==
  /\ op = "gitUpdate" /\ pc = "await fetch"
  /\ \E code \in ExitCodes :
       IF code = "failed"
       THEN /\ gitLog' = exited(gitLog, code)
            /\ spinLog' = fail(spinLog)
            /\ Throw("Error")
            /\ UNCHANGED <<ctx, http, gitUrl, marker, ret, calls, op>>
       ELSE /\ spinLog' = start(succeed(spinLog), "Git checkout")
            /\ gitLog' = execa(exited(gitLog, code), <<"checkout", ctx.branch>>,
                               ctx.templateTmpDirPath)
            /\ pc' = "await checkout"
            /\ UNCHANGED <<ctx, http, gitUrl, marker, ret, calls, op, outcome, err>>

\* the same handler with the rethrow of the checkout failure lost
gitUpdateCheckoutExitNoThrow ==
  /\ op = "gitUpdate" /\ pc = "await checkout"
  /\ \E code \in ExitCodes :
       /\ spinLog' = start(IF code = "failed" THEN fail(spinLog) ELSE succeed(spinLog),
                           "Git pull")
       /\ gitLog' = execa(exited(gitLog, code), <<"pull">>, ctx.templateTmpDirPath)
       /\ pc' = "await pull"
       /\ UNCHANGED <<ctx, http, gitUrl, marker, ret, calls, op, outcome, err>>

\* lines 130-140: checkout exits; on failure fail() and rethrow, else pull
gitUpdateCheckoutExit ==
  /\ op = "gitUpdate" /\ pc = "await checkout"
  /\ \E code \in ExitCodes :
       IF code = "failed"
       THEN /\ gitLog' = exited(gitLog, code)
            /\ spinLog' = fail(spinLog)
            /\ Throw("Error")
            /\ UNCHANGED <<ctx, http, gitUrl, marker, ret, calls, op>>
       ELSE /\ spinLog' = start(succeed(spinLog), "Git pull")
            /\ gitLog' = execa(exited(gitLog, code), <<"pull">>, ctx.templateTmpDirPath)
            /\ pc' = "await pull"
            /\ UNCHANGED <<ctx, http, gitUrl, marker, ret, calls, op, outcome, err>>

\* isSubmodule(templateTmpDirPath), line 17: existsSync of the .gitmodules file,
\* answered by the file system at the moment of the call
isSubmodule(present) == present

\* the same handler with the isSubmodule test lost: submodule init always runs
gitUpdatePullExitAlwaysInit ==
  /\ op = "gitUpdate" /\ pc = "await pull"
  /\ \E code \in ExitCodes, present \in BOOLEAN :
       IF code = "failed"
       THEN /\ gitLog' = exited(gitLog, code)
            /\ spinLog' = fail(spinLog)
            /\ Throw("Error")
            /\ UNCHANGED <<ctx, http, gitUrl, marker, ret, calls, op>>
       ELSE /\ marker' = IF present THEN "present" ELSE "absent"
            /\ spinLog' = succeed(spinLog)
            /\ gitLog' = execa(exited(gitLog, code), <<"submodule", "init">>,
                               ctx.templateTmpDirPath)
            /\ pc' = "await submodule init"
            /\ UNCHANGED <<ctx, http, gitUrl, ret, calls, op, outcome, err>>

\* lines 141-162: pull exits; on failure fail() and rethrow; else, when the
\* clone holds .gitmodules, succeed() and spawn submodule init; else the final
\* succeed() and return
gitUpdatePullExit ==
  /\ op = "gitUpdate" /\ pc = "await pull"
  /\ \E code \in ExitCodes, present \in BOOLEAN :
       IF code = "failed"
       THEN /\ gitLog' = exited(gitLog, code)
            /\ spinLog' = fail(spinLog)
            /\ Throw("Error")
            /\ UNCHANGED <<ctx, http, gitUrl, marker, ret, calls, op>>
       ELSE /\ marker' = IF present THEN "present" ELSE "absent"
            /\ IF isSubmodule(present)
               THEN /\ spinLog' = succeed(spinLog)
                    /\ gitLog' = execa(exited(gitLog, code), <<"submodule", "init">>,
                                       ctx.templateTmpDirPath)
                    /\ pc' = "await submodule init"
                    /\ UNCHANGED <<outcome, err>>
               ELSE /\ spinLog' = succeed(spinLog)
                    /\ gitLog' = exited(gitLog, code)
                    /\ Return
            /\ UNCHANGED <<ctx, http, gitUrl, ret, calls, op>>

\* lines 148-160: submodule init exits; a failure is caught by the try of the
\* pull step (fail() and rethrow), else start the indicator and spawn the update
gitUpdateInitExit ==
  /\ op = "gitUpdate" /\ pc = "await submodule init"
  /\ \E code \in ExitCodes :
       IF code = "failed"
       THEN /\ gitLog' = exited(gitLog, code)
            /\ spinLog' = fail(spinLog)
            /\ Throw("Error")
            /\ UNCHANGED <<ctx, http, gitUrl, marker, ret, calls, op>>
       ELSE /\ spinLog' = start(spinLog, "update submodule")
            /\ gitLog' = execa(exited(gitLog, code),
                               <<"submodule", "update", "--recursive">>,
                               ctx.templateTmpDirPath)
            /\ pc' = "await submodule update"
            /\ UNCHANGED <<ctx, http, gitUrl, marker, ret, calls, op, outcome, err>>

\* lines 154-162: submodule update exits; fail() and rethrow, or the final
\* succeed() and return
gitUpdateUpdateExit ==
  /\ op = "gitUpdate" /\ pc = "await submodule update"
  /\ \E code \in ExitCodes :
       /\ gitLog' = exited(gitLog, code)
       /\ IF code = "failed"
          THEN spinLog' = fail(spinLog) /\ Throw("Error")
          ELSE spinLog' = succeed(spinLog) /\ Return
       /\ UNCHANGED <<ctx, http, gitUrl, marker, ret, calls, op>>

----------------------------------------------------------------------------
(* gitClone(ctx, spinner), util.js 170-186 *)

\* lines 171-180: start the indicator and spawn git clone
gitCloneCall ==
  /\ CanCall
  /\ \E c \in Contexts :
       /\ Enter("gitClone")
       /\ ctx' = c
       /\ gitUrl' = NoUrl
       /\ spinLog' = start(<<>>, "clone git repo")
       /\ gitLog' = execa(<<>>, <<"clone", c.repo, c.id, "--single-branch",
                                  "--recurse-submodules", "-b", c.branch>>,
                          c.blocksTempPath)
       /\ http' = <<>>
       /\ pc' = "await clone"

\* lines 181-185: clone exits; fail() and rethrow, or succeed() and return
gitCloneExit ==
  /\ op = "gitClone" /\ pc = "await clone"
  /\ \E code \in ExitCodes :
       /\ gitLog' = exited(gitLog, code)
       /\ IF code = "failed"
          THEN spinLog' = fail(spinLog) /\ Throw("Error")
          ELSE spinLog' = succeed(spinLog) /\ Return
       /\ UNCHANGED <<ctx, http, gitUrl, marker, ret, calls, op>>

----------------------------------------------------------------------------
(* getBlockListFromGit(gitUrl), util.js 70-105 *)

\* line 72
ignoreFile == { <<"_", "s", "c", "r", "i", "p", "t", "s">>, <<"t", "e", "s", "t", "s">> }

\* the directory and file names a repository tree may hold
TreePaths == ignoreFile \cup
  { <<"A", "b", "B", "a">>, <<"a", "1">>, <<".", "a">>, <<"A", "B">> }

\* an entry of the `tree` array of the git-hosting API
TreeEntries == [type : {"tree", "blob"}, path : TreePaths]

\* the response bodies: a well-formed JSON document or one JSON.parse rejects
TreeBodies ==
  {[wellFormed |-> FALSE, tree |-> <<>>]} \cup
  {[wellFormed |-> TRUE, tree |-> t] : t \in SeqsUpTo(TreeEntries, MaxTree)}

\* blockList.json of the vendor registry, returned verbatim when well-formed
BlockListBodies ==
  {[wellFormed |-> FALSE, json |-> <<>>],
   [wellFormed |-> TRUE, json |-> <<>>],
   [wellFormed |-> TRUE,
    json |-> <<[type |-> "block", path |-> <<"A", "b">>, name |-> <<"A", "b">>,
                previewUrl |-> <<"a", "b">>]>>]}

\* lines 86-89: the filter of the tree
keepFile(file) ==
  /\ file.type = "tree"
  /\ file.path \notin ignoreFile
  /\ ~(Len(file.path) >= 1 /\ file.path[1] = ".")

\* lines 90-102: the descriptor of one kept entry (previewUrl without its
\* constant https://preview.pro.ant.design/ prefix)
descriptor(path) ==
  [type |-> "block", path |-> path, name |-> path,
   previewUrl |-> genBlockName(path).value]

\* lines 85-102: filter, then map; genBlockName may throw inside the map
filesTree(tree) ==
  LET kept == SelectSeq(tree, keepFile)
  IN  [threw |-> \E i \in 1..Len(kept) : genBlockName(kept[i].path).threw,
       value |-> [i \in 1..Len(kept) |-> descriptor(kept[i].path)]]

\* lines 71-79 and 84: parse the url, succeed() and start() on the module's
\* indicator, then issue the GET the url selects
getBlockListFromGitCall ==
  /\ CanCall
  /\ \E u \in GitUrls :
       /\ Enter("getBlockListFromGit")
       /\ gitUrl' = u
       /\ ctx' = NoCtx
       /\ gitLog' = <<>>
       /\ spinLog' = start(succeed(<<>>), "find block list")
       /\ IF u.name = "pro-blocks" /\ u.owner = "ant-design"
          THEN http' = got(<<>>, "blockList.json") /\ pc' = "await blockList"
          ELSE http' = got(<<>>, "git/trees/master") /\ pc' = "await tree"

\* lines 77-82: the registry answers; a rejected request propagates as it is,
\* else succeed() and return JSON.parse(body), which may throw
getBlockListFromGitBlockList ==
  /\ op = "getBlockListFromGit" /\ pc = "await blockList"
  /\ \E rejected \in BOOLEAN, body \in BlockListBodies :
       /\ IF rejected
          THEN Throw("HTTPError") /\ UNCHANGED <<spinLog, ret>>
          ELSE /\ spinLog' = succeed(spinLog)
               /\ IF body.wellFormed
                  THEN Return /\ ret' = [set |-> TRUE, value |-> body.json]
                  ELSE Throw("SyntaxError") /\ UNCHANGED ret
       /\ UNCHANGED <<op, ctx, gitLog, http, gitUrl, marker, calls>>

\* lines 84-104: the tree API answers; a rejected request, a body JSON.parse
\* rejects or a throwing genBlockName propagate as they are, else succeed()
\* and return the descriptors
getBlockListFromGitTree ==
  /\ op = "getBlockListFromGit" /\ pc = "await tree"
  /\ \E rejected \in BOOLEAN, body \in TreeBodies :
       /\ IF rejected
          THEN Throw("HTTPError") /\ UNCHANGED <<spinLog, ret>>
          ELSE IF ~body.wellFormed
          THEN Throw("SyntaxError") /\ UNCHANGED <<spinLog, ret>>
          ELSE IF filesTree(body.tree).threw
          THEN Throw("TypeError") /\ UNCHANGED <<spinLog, ret>>
          ELSE /\ spinLog' = succeed(spinLog)
               /\ ret' = [set |-> TRUE, value |-> filesTree(body.tree).value]
               /\ Return
       /\ UNCHANGED <<op, ctx, gitLog, http, gitUrl, marker, calls>>

----------------------------------------------------------------------------
(* The caller of the asynchronous operations *)

IdleNames  == name = <<>> /\ nameRes = [done |-> FALSE, threw |-> FALSE, value |-> <<>>]
IdleBlocks == blocks = <<>> /\ hasLink = FALSE /\ blockArray = [done |-> FALSE, value |-> <<>>]
IdleRoutes ==
  /\ routes = <<>> /\ rpc = "idle" /\ routerConfig = <<>> /\ keys = <<>>
  /\ ki = 1 /\ si = 0 /\ mapped = <<>>
  /\ depthRes = [done |-> FALSE, value |-> <<>>]
  /\ existsRes = [done |-> FALSE, path |-> <<>>, result |-> FALSE]
IdleGit ==
  /\ op = "none" /\ pc = "idle" /\ ctx = NoCtx /\ gitLog = <<>> /\ spinLog = <<>>
  /\ http = <<>> /\ gitUrl = NoUrl /\ marker = "unchecked" /\ outcome = "pending"
  /\ err = "none" /\ ret = [set |-> FALSE, value |-> <<>>] /\ calls = 0

InitGit == IdleGit /\ IdleNames /\ IdleBlocks /\ IdleRoutes

NextGit ==
  \/ (gitUpdateCall /\ UNCHANGED <<nameVars, blockVars, routeVars>>)
  \/ (gitUpdateFetchExit /\ UNCHANGED <<nameVars, blockVars, routeVars>>)
  \/ (gitUpdateCheckoutExit /\ UNCHANGED <<nameVars, blockVars, routeVars>>)
  \/ (gitUpdatePullExit /\ UNCHANGED <<nameVars, blockVars, routeVars>>)
  \/ (gitUpdateInitExit /\ UNCHANGED <<nameVars, blockVars, routeVars>>)
  \/ (gitUpdateUpdateExit /\ UNCHANGED <<nameVars, blockVars, routeVars>>)
  \/ (gitCloneCall /\ UNCHANGED <<nameVars, blockVars, routeVars>>)
  \/ (gitCloneExit /\ UNCHANGED <<nameVars, blockVars, routeVars>>)
  \/ (getBlockListFromGitCall /\ UNCHANGED <<nameVars, blockVars, routeVars>>)
  \/ (getBlockListFromGitBlockList /\ UNCHANGED <<nameVars, blockVars, routeVars>>)
  \/ (getBlockListFromGitTree /\ UNCHANGED <<nameVars, blockVars, routeVars>>)

SpecGit == InitGit /\ [][NextGit]_vars

----------------------------------------------------------------------------
(* Properties of the asynchronous operations, under SpecGit *)

\* the git commands of a complete gitUpdate, in order
UpdateCommands(c) ==
  << <<"fetch">>, <<"checkout", c.branch>>, <<"pull">>, <<"submodule", "init">>,
     <<"submodule", "update", "--recursive">> >>

Invoked(args) == \E i \in 1..Len(gitLog) : gitLog[i].args = args
ExitedOk(args) == \E i \in 1..Len(gitLog) : gitLog[i].args = args /\ gitLog[i].exit = "ok"
Ended == pc = "done"
LastCall(log) == IF log = <<>> THEN "none" ELSE log[Len(log)].call

\* C1: in gitUpdate the git commands are spawned in the order fetch, checkout
\* <branch>, pull, submodule init, submodule update, each at most once and each
\* only after every earlier one has exited successfully; a command that fails is
\* the last one spawned, and the call has then ended by throwing.
C1_GitUpdateSequential ==
  op = "gitUpdate" =>
    /\ Len(gitLog) <= 5
    /\ \A i \in 1..Len(gitLog) :
         /\ gitLog[i].args = UpdateCommands(ctx)[i]
         /\ i < Len(gitLog) => gitLog[i].exit = "ok"
         /\ gitLog[i].exit = "failed" => Ended /\ outcome = "thrown" /\ err = "Error"
         /\ gitLog[i].exit = "running" => ~Ended /\ outcome = "pending"
    /\ outcome = "returned" => \A i \in 1..Len(gitLog) : gitLog[i].exit = "ok"

\* C1 witness: a gitUpdate whose checkout failed after a successful fetch
C1_Witness ==
  /\ op = "gitUpdate" /\ Ended /\ outcome = "thrown"
  /\ Len(gitLog) = 2 /\ gitLog[1].exit = "ok" /\ gitLog[2].exit = "failed"

\* C2: in getBlockListFromGit, gitUpdate and gitClone, whenever the call ends by
\* throwing, the last call made on the progress indicator is fail().
C2_FailBeforeThrow ==
  (op \in {"getBlockListFromGit", "gitUpdate", "gitClone"} /\ Ended /\ outcome = "thrown")
    => LastCall(spinLog) = "fail"

\* C3 as stated: once gitUpdate has ended, submodule init and submodule update
\* have both been spawned if and only if pull succeeded and .gitmodules was
\* present, init having exited before update was spawned; when the marker was
\* absent exactly fetch, checkout, pull were spawned and the call returned after a
\* final succeed().
C3_Original ==
  (op = "gitUpdate" /\ Ended) =>
    /\ (Invoked(<<"submodule", "init">>) /\ Invoked(<<"submodule", "update", "--recursive">>))
         <=> (ExitedOk(<<"pull">>) /\ marker = "present")
    /\ Invoked(<<"submodule", "update", "--recursive">>) => ExitedOk(<<"submodule", "init">>)
    /\ (ExitedOk(<<"pull">>) /\ marker = "absent") =>
         /\ Len(gitLog) = 3
         /\ outcome = "returned"
         /\ LastCall(spinLog) = "succeed"

\* C3 amended: submodule init is spawned if and only if pull succeeded and
\* .gitmodules was present at that moment; submodule update is spawned if and
\* only if submodule init was spawned and exited successfully; when pull
\* succeeded and the marker was absent exactly fetch, checkout, pull were spawned
\* and the call returned after a final succeed().
C3_SubmoduleSteps ==
  op = "gitUpdate" =>
    /\ Invoked(<<"submodule", "init">>) <=> (ExitedOk(<<"pull">>) /\ marker = "present")
    /\ Invoked(<<"submodule", "update", "--recursive">>) <=> ExitedOk(<<"submodule", "init">>)
    /\ marker # "unchecked" => ExitedOk(<<"pull">>)
    /\ (ExitedOk(<<"pull">>) /\ marker = "absent") =>
         /\ Len(gitLog) = 3
         /\ Ended /\ outcome = "returned"
         /\ LastCall(spinLog) = "succeed"

\* C3 witness: a gitUpdate of a clone without .gitmodules that returned
C3_Witness ==
  /\ op = "gitUpdate" /\ Ended /\ outcome = "returned"
  /\ marker = "absent" /\ Len(gitLog) = 3

\* number of steps of the indicator left open by the first n calls of log
Open(log, n) ==
  Cardinality({i \in 1..n : log[i].call = "start"})
    - Cardinality({i \in 1..n : log[i].call \in {"succeed", "fail"}})

\* C10: in gitUpdate and gitClone every succeed() or fail() closes a step that a
\* start() opened and that is still open, and when the call has returned or
\* thrown no step is left open.
C10_WellBracketed ==
  op \in {"gitUpdate", "gitClone"} =>
    /\ \A i \in 1..Len(spinLog) :
         spinLog[i].call \in {"succeed", "fail"} => Open(spinLog, i - 1) > 0
    /\ Ended => Open(spinLog, Len(spinLog)) = 0

\* C10, what the code does: the calls are well bracketed in every run in which
\* submodule init does not fail
C10_WellBracketedUnlessInitFails ==
  (op \in {"gitUpdate", "gitClone"}
     /\ ~\E i \in 1..Len(gitLog) :
           gitLog[i].args = <<"submodule", "init">> /\ gitLog[i].exit = "failed") =>
    /\ \A i \in 1..Len(spinLog) :
         spinLog[i].call \in {"succeed", "fail"} => Open(spinLog, i - 1) > 0
    /\ Ended => Open(spinLog, Len(spinLog)) = 0

\* C2, what the code does: gitUpdate and gitClone call fail() last before they
\* throw; getBlockListFromGit never calls fail()
C2_FailBeforeThrowGit ==
  /\ (op \in {"gitUpdate", "gitClone"} /\ Ended /\ outcome = "thrown")
       => LastCall(spinLog) = "fail"
  /\ op = "getBlockListFromGit" => \A i \in 1..Len(spinLog) : spinLog[i].call # "fail"

----------------------------------------------------------------------------
(* genBlockName applied to bounded identifiers *)

NameChars == {"A", "B", "a", "b", "1", "_"}

Names == SeqsUpTo(NameChars, MaxNameLen) \ {<<>>}

InitName ==
  /\ name \in Names
  /\ nameRes = [done |-> FALSE, threw |-> FALSE, value |-> <<>>]
  /\ IdleGit /\ IdleBlocks /\ IdleRoutes

\* the caller evaluates genBlockName(name)
genBlockNameCall ==
  /\ ~nameRes.done
  /\ nameRes' = [done |-> TRUE, threw |-> genBlockName(name).threw,
                 value |-> genBlockName(name).value]
  /\ UNCHANGED <<name, gitVars, blockVars, routeVars>>

NextName == genBlockNameCall

SpecName == InitName /\ [][NextName]_vars

\* s[i..j] is a token: an optional capital followed by a maximal run of one or
\* more lowercase letters (the capital right before the run belonging to it), or
\* a maximal run of digits
IsToken(s, i, j) ==
  \/ /\ i <= j
     /\ \A k \in i..j : s[k] \in Digit
     /\ i = 1 \/ s[i - 1] \notin Digit
     /\ j = Len(s) \/ s[j + 1] \notin Digit
  \/ /\ s[i] \in Upper
     /\ i < j
     /\ \A k \in (i + 1)..j : s[k] \in Lower
     /\ j = Len(s) \/ s[j + 1] \notin Lower
  \/ /\ i <= j
     /\ \A k \in i..j : s[k] \in Lower
     /\ i = 1 \/ s[i - 1] \notin (Lower \cup Upper)
     /\ j = Len(s) \/ s[j + 1] \notin Lower

TokenSet(s) == {t \in (1..Len(s)) \X (1..Len(s)) : IsToken(s, t[1], t[2])}

RECURSIVE TokensInOrder(_, _)
\* the tokens of T as strings, by increasing start
TokensInOrder(s, T) ==
  IF T = {} THEN <<>>
  ELSE LET t == CHOOSE x \in T : \A y \in T : x[1] <= y[1]
       IN  <<SubStr(s, t[1], t[2])>> \o TokensInOrder(s, T \ {t})

ExpectedBlockName(s) ==
  JoinWith([i \in 1..Cardinality(TokenSet(s)) |->
              ToLowerCase(TokensInOrder(s, TokenSet(s))[i])], <<"/">>)

\* C9: for every identifier genBlockName returns the '/'-joined lower-cased
\* sequence of its tokens, the characters of no token being dropped silently,
\* also when no token is left.
C9_GenBlockName ==
  nameRes.done => ~nameRes.threw /\ nameRes.value = ExpectedBlockName(name)

\* C9, what the code does: the same result for every identifier that holds at
\* least one token, and a TypeError for one that holds none
C9_GenBlockNameWithTokens ==
  nameRes.done =>
    /\ nameRes.threw <=> TokenSet(name) = {}
    /\ ~nameRes.threw => nameRes.value = ExpectedBlockName(name)

----------------------------------------------------------------------------
(* printBlocks(blocks, hasLink), util.js 39-68 *)

\* path.join(a, b) of node: the non-empty arguments joined with '/', '.' when
\* none is left (the arguments here hold no '.', '..' or doubled '/')
join(a, b) ==
  IF a = <<>> /\ b = <<>> THEN <<".">>
  ELSE IF a = <<>> THEN b
  ELSE IF b = <<>> THEN a
  ELSE a \o <<"/">> \o b

\* lines 44-58: the record pushed for a block; name is the decorated label, to
\* which the preview link is added when hasLink
blockRecord(parentPath, block, link) ==
  [name  |-> [label |-> join(parentPath, block.path),
              link  |-> IF link THEN block.previewUrl ELSE <<>>],
   value |-> join(parentPath, block.path),
   key   |-> join(parentPath, block.path)]

RECURSIVE loopBlocks(_, _, _)
\* lines 41-65: the records pushed, in order, by loopBlocks(blocks, parentPath);
\* a dir recurses with its own path as parentPath
loopBlocks(bs, parentPath, link) ==
  IF bs = <<>> THEN <<>>
  ELSE LET block == Head(bs)
       IN  (IF block.type = "block" THEN <<blockRecord(parentPath, block, link)>>
            ELSE <<>>)
           \o (IF block.type = "dir" THEN loopBlocks(block.blocks, block.path, link)
               ELSE <<>>)
           \o loopBlocks(Tail(bs), parentPath, link)

\* lines 39-68, parentPath defaulting to ''
printBlocks(bs, link) == loopBlocks(bs, <<>>, link)

BlockPaths == {<<"c">>}
DirPaths   == {<<"a">>, <<"b">>}

RECURSIVE BlockNodes(_)
\* the descriptors nested at most d dirs deep
BlockNodes(d) ==
  {[type |-> "block", path |-> p, previewUrl |-> <<"p">>, blocks |-> <<>>] : p \in BlockPaths}
  \cup (IF d = 0 THEN {}
        ELSE {[type |-> "dir", path |-> p, previewUrl |-> <<>>, blocks |-> bl] :
                p \in DirPaths, bl \in SeqsUpTo(BlockNodes(d - 1), MaxWidth)})

BlockLists == SeqsUpTo(BlockNodes(MaxDepth), MaxWidth)

InitBlocks ==
  /\ blocks \in BlockLists
  /\ hasLink \in BOOLEAN
  /\ blockArray = [done |-> FALSE, value |-> <<>>]
  /\ IdleGit /\ IdleNames /\ IdleRoutes

\* the caller evaluates printBlocks(blocks, hasLink)
printBlocksCall ==
  /\ ~blockArray.done
  /\ blockArray' = [done |-> TRUE, value |-> printBlocks(blocks, hasLink)]
  /\ UNCHANGED <<blocks, hasLink, gitVars, nameVars, routeVars>>

NextBlocks == printBlocksCall

SpecBlocks == InitBlocks /\ [][NextBlocks]_vars

RECURSIVE FullPaths(_, _)
\* for each block-typed node of the tree, depth first in the given order, the
\* paths of all its ancestor dirs, outermost first, joined with its own path
FullPaths(bs, ancestors) ==
  IF bs = <<>> THEN <<>>
  ELSE (IF Head(bs).type = "block"
        THEN <<JoinWith(Append(ancestors, Head(bs).path), <<"/">>)>>
        ELSE FullPaths(Head(bs).blocks, Append(ancestors, Head(bs).path)))
       \o FullPaths(Tail(bs), ancestors)

\* C5: printBlocks returns exactly one record per block-typed node and none for
\* a dir, and the value and key of each record are the paths of all its ancestor
\* dirs, outermost first, joined with the block's own path.
C5_PrintBlocks ==
  blockArray.done =>
    /\ Len(blockArray.value) = Len(FullPaths(blocks, <<>>))
    /\ \A i \in 1..Len(blockArray.value) :
         /\ blockArray.value[i].value = FullPaths(blocks, <<>>)[i]
         /\ blockArray.value[i].key = FullPaths(blocks, <<>>)[i]

RECURSIVE MaxNesting(_)
\* the largest number of dirs above a node of the tree
MaxNesting(bs) ==
  IF bs = <<>> THEN 0
  ELSE LET h == IF Head(bs).type = "dir" THEN 1 + MaxNesting(Head(bs).blocks) ELSE 0
           t == MaxNesting(Tail(bs))
       IN  IF h > t THEN h ELSE t

\* C5, what the code does: one record per block-typed node always, and the
\* joined path of all ancestors when no dir is nested inside another dir
C5_PrintBlocksOneLevel ==
  blockArray.done =>
    /\ Len(blockArray.value) = Len(FullPaths(blocks, <<>>))
    /\ MaxNesting(blocks) <= 1 =>
         \A i \in 1..Len(blockArray.value) :
           /\ blockArray.value[i].value = FullPaths(blocks, <<>>)[i]
           /\ blockArray.value[i].key = FullPaths(blocks, <<>>)[i]

----------------------------------------------------------------------------
(* JavaScript objects used as maps: own entries in insertion order *)

\* names every plain object inherits from Object.prototype (two of them)
InheritedNames ==
  { <<"c", "o", "n", "s", "t", "r", "u", "c", "t", "o", "r">>,
    <<"t", "o", "S", "t", "r", "i", "n", "g">> }

HasOwn(o, k) == \E i \in 1..Len(o) : o[i].k = k

\* o[k] of an own property
GetOwn(o, k) == o[CHOOSE i \in 1..Len(o) : o[i].k = k].v

\* whether o[k] is truthy: an own entry (always a node object here), or a
\* function inherited from Object.prototype
Truthy(o, k) == HasOwn(o, k) \/ k \in InheritedNames

\* o[k] = v: an own entry keeps its place, a new one is added last
Put(o, k, v) ==
  IF HasOwn(o, k)
  THEN [i \in 1..Len(o) |-> IF o[i].k = k THEN [k |-> k, v |-> v] ELSE o[i]]
  ELSE Append(o, [k |-> k, v |-> v])

RECURSIVE Spread(_, _)
\* { ...a, ...b }
Spread(a, b) ==
  IF b = <<>> THEN a ELSE Spread(Put(a, Head(b).k, Head(b).v), Tail(b))

\* Object.keys(o)
ObjectKeys(o) == [i \in 1..Len(o) |-> o[i].k]

----------------------------------------------------------------------------
(* genRouterToTreeData, reduceData, depthRouterConfig, routeExists,        *)
(* util.js 188-275                                                         *)

RECURSIVE genRouterToTreeData(_)
\* lines 188-200: a node per route with a truthy path, the others filtered out
genRouterToTreeData(rs) ==
  IF rs = <<>> THEN <<>>
  ELSE LET item == Head(rs)
       IN  (IF item.hasPath /\ item.path # <<>>
            THEN <<[title |-> item.path, value |-> item.path, key |-> item.path,
                    children |-> genRouterToTreeData(
                                   IF item.hasRoutes THEN item.routes ELSE <<>>)]>>
            ELSE <<>>)
           \o genRouterToTreeData(Tail(rs))

\* lines 214, 220-222: the node is written under its key unless pre[key] is truthy
insertIfAbsent(pre, current) ==
  IF ~Truthy(pre, current.key) THEN Put(pre, current.key, current) ELSE pre

RECURSIVE reduceFrom(_, _)
RECURSIVE reduceData(_)
\* lines 213-228: the reduce, from the accumulator pre over the nodes left
reduceFrom(treeData, pre) ==
  IF treeData = <<>> THEN pre
  ELSE LET current      == Head(treeData)
           childrenKeys == reduceData(current.children)
       IN  reduceFrom(Tail(treeData), Spread(insertIfAbsent(pre, current), childrenKeys))

\* lines 212-228
reduceData(treeData) == reduceFrom(treeData, <<>>)

\* lines 249-250: key.split('/').filter(routerKey => routerKey)
segments(key) == SelectSeq(Split(key, "/"), LAMBDA x : x # <<>>)

\* lines 252-255: the forEach callback at index: the prefix made of the first
\* `index` segments, when not empty, is assigned routerConfig[key]
backfill(config, key, index) ==
  LET routerKey == JoinWith(SubSeq(segments(key), 1, index), <<"/">>)
  IN  IF routerKey # <<>>
      THEN Put(config, <<"/">> \o routerKey, GetOwn(config, key))
      ELSE config

\* line 260: item && item.children && item.children.length
hasChildren(item) == Len(item.children) > 0

RoutePaths == { <<"/", "a">>, <<"/", "a", "/", "b">>, <<"/", "b">> }

\* the strings routeExists is asked about
QueryPaths == RoutePaths \cup { <<"/", "c">> } \cup InheritedNames

\* the route objects nested at most d levels below the list
RECURSIVE RouteItems(_)
RouteItems(d) ==
  {[hasPath |-> TRUE, path |-> q, hasRoutes |-> FALSE, routes |-> <<>>] : q \in RoutePaths}
  \cup {[hasPath |-> FALSE, path |-> <<>>, hasRoutes |-> FALSE, routes |-> <<>>]}
  \cup (IF d = 0 THEN {}
        ELSE {[hasPath |-> hp, path |-> IF hp THEN q ELSE <<>>,
               hasRoutes |-> TRUE, routes |-> rs] :
                hp \in BOOLEAN, q \in RoutePaths,
                rs \in SeqsUpTo(RouteItems(d - 1), MaxWidth)})

RouteLists == SeqsUpTo(RouteItems(1), MaxWidth)

InitRoutes ==
  /\ routes \in RouteLists
  /\ rpc = "idle" /\ routerConfig = <<>> /\ keys = <<>>
  /\ ki = 1 /\ si = 0 /\ mapped = <<>>
  /\ depthRes = [done |-> FALSE, value |-> <<>>]
  /\ existsRes = [done |-> FALSE, path |-> <<>>, result |-> FALSE]
  /\ IdleGit /\ IdleNames /\ IdleBlocks

\* lines 269-275: routeExists(path, routes)
routeExistsCall ==
  /\ rpc = "idle" /\ ~existsRes.done
  /\ \E path \in QueryPaths :
       existsRes' = [done |-> TRUE, path |-> path,
                     result |-> Truthy(reduceData(genRouterToTreeData(routes)), path)]
  /\ UNCHANGED <<routes, rpc, routerConfig, keys, ki, si, mapped, depthRes>>
  /\ UNCHANGED <<gitVars, nameVars, blockVars>>

\* lines 241, 246: depthRouterConfig builds the map and takes its keys
depthRouterConfigCall ==
  /\ rpc = "idle" /\ ~existsRes.done
  /\ routerConfig' = reduceData(genRouterToTreeData(routes))
  /\ keys' = ObjectKeys(routerConfig')
  /\ ki' = 1 /\ si' = 0 /\ mapped' = <<>>
  /\ rpc' = "map"
  /\ UNCHANGED <<routes, depthRes, existsRes>>
  /\ UNCHANGED <<gitVars, nameVars, blockVars>>

\* lines 251-256: one call of the forEach callback for the key the map is at
depthRouterConfigForEach ==
  /\ rpc = "map" /\ ki <= Len(keys) /\ si < Len(segments(keys[ki]))
  /\ routerConfig' = backfill(routerConfig, keys[ki], si)
  /\ si' = si + 1
  /\ UNCHANGED <<routes, rpc, keys, ki, mapped, depthRes, existsRes>>
  /\ UNCHANGED <<gitVars, nameVars, blockVars>>

\* line 257: the map callback returns routerConfig[key]
depthRouterConfigMapReturn ==
  /\ rpc = "map" /\ ki <= Len(keys) /\ si = Len(segments(keys[ki]))
  /\ mapped' = Append(mapped, GetOwn(routerConfig, keys[ki]))
  /\ ki' = ki + 1 /\ si' = 0
  /\ UNCHANGED <<routes, rpc, routerConfig, keys, depthRes, existsRes>>
  /\ UNCHANGED <<gitVars, nameVars, blockVars>>

\* lines 259-261: the filter of the mapped values, and the return
depthRouterConfigFilter ==
  /\ rpc = "map" /\ ki > Len(keys)
  /\ depthRes' = [done |-> TRUE, value |-> SelectSeq(mapped, hasChildren)]
  /\ rpc' = "done"
  /\ UNCHANGED <<routes, routerConfig, keys, ki, si, mapped, existsRes>>
  /\ UNCHANGED <<gitVars, nameVars, blockVars>>

NextRoutes ==
  \/ routeExistsCall
  \/ depthRouterConfigCall
  \/ depthRouterConfigForEach
  \/ depthRouterConfigMapReturn
  \/ depthRouterConfigFilter

SpecRoutes == InitRoutes /\ [][NextRoutes]_vars

----------------------------------------------------------------------------
(* Properties of the route helpers, under SpecRoutes *)

RECURSIVE ReachablePaths(_)
\* the paths of the route objects reachable from the list through nested
\* `routes` of ancestors that all carry a path
ReachablePaths(rs) ==
  IF rs = <<>> THEN {}
  ELSE (IF Head(rs).hasPath /\ Head(rs).path # <<>>
        THEN {Head(rs).path} \cup ReachablePaths(Head(rs).routes)
        ELSE {})
       \cup ReachablePaths(Tail(rs))

\* C4: for every string and every route list, routeExists(path, routes) is true
\* if and only if a route reachable through path-carrying ancestors has exactly
\* that path.
C4_RouteExists ==
  existsRes.done => (existsRes.result <=> existsRes.path \in ReachablePaths(routes))

\* C4, what the code does: the equivalence for every string that is not the
\* name of a property inherited from Object.prototype
C4_RouteExistsOwnKeys ==
  (existsRes.done /\ existsRes.path \notin InheritedNames) =>
    (existsRes.result <=> existsRes.path \in ReachablePaths(routes))

\* the values of a map, in the order of its keys
Values(o) == [i \in 1..Len(o) |-> o[i].v]

\* the flattened route map of the route list
Flattened == reduceData(genRouterToTreeData(routes))

\* C6: depthRouterConfig returns exactly the nodes of the flattened route map
\* that have at least one child, each once, in the insertion order of the
\* flatten step.
C6_DepthRouterConfig ==
  depthRes.done => depthRes.value = SelectSeq(Values(Flattened), hasChildren)

RECURSIVE PreOrder(_)
\* the nodes of a tree in the order the traversal meets them: a node, then its
\* descendants, then its later siblings
PreOrder(treeData) ==
  IF treeData = <<>> THEN <<>>
  ELSE <<Head(treeData)>> \o PreOrder(Head(treeData).children) \o PreOrder(Tail(treeData))

\* the first node of ns that has key k
FirstWithKey(ns, k) == ns[CHOOSE i \in 1..Len(ns) :
                            /\ ns[i].key = k
                            /\ \A j \in 1..(i - 1) : ns[j].key # k]

\* the map depthRouterConfig starts from is reduceData's result
JustReduced == rpc = "map" /\ ki = 1 /\ si = 0

\* C7: reduceData is first-write-wins: the flattened map holds under each key
\* the node with that key met first in the traversal, never a later one.
C7_FirstWriteWins ==
  JustReduced =>
    \A i \in 1..Len(routerConfig) :
      routerConfig[i].v = FirstWithKey(PreOrder(genRouterToTreeData(routes)), routerConfig[i].k)

\* the keys carried by a node below the top level of the tree
NestedKeys(treeData) ==
  UNION {{PreOrder(treeData[i].children)[j].key :
            j \in 1..Len(PreOrder(treeData[i].children))} : i \in 1..Len(treeData)}

\* C7, what the code does: among the nodes of one list the first with a key is
\* kept, provided no nested node carries that key
C7_FirstSiblingWins ==
  JustReduced =>
    LET treeData == genRouterToTreeData(routes)
    IN  \A i \in 1..Len(treeData) :
          treeData[i].key \notin NestedKeys(treeData) =>
            /\ HasOwn(routerConfig, treeData[i].key)
            /\ GetOwn(routerConfig, treeData[i].key) = FirstWithKey(treeData, treeData[i].key)

\* C8: during the back-fill an entry present in the map is never replaced by a
\* prefix assignment; a prefix is only added when its key is absent.
C8_PrefixNeverReplaces ==
  [][(rpc = "map" /\ rpc' = "map") =>
       \A i \in 1..Len(routerConfig) : routerConfig'[i] = routerConfig[i]]_vars

====
